---------------------------- MODULE Spec2Model ----------------------------
(***************************************************************************)
(* Stock ledger of the Pack Split Tracker (src/app1.py).                   *)
(*                                                                         *)
(* The database holds three tables: products, stock and open_log.  Every   *)
(* call of execute() opens a connection, runs ONE statement and commits    *)
(* it, so every statement is a transaction of its own.  The handlers       *)
(* upsert_product, get_stock, set_stock, apply_opening and undo_last_entry *)
(* are sequences of such statements.                                       *)
(*                                                                         *)
(* A database value is a record d = [products, stock, open_log, next_id]:  *)
(*   products : function from the barcodes that have a row to the row      *)
(*   stock    : function from the barcodes that have a row to the row      *)
(*   open_log : the set of rows of public.open_log (ids are unique)        *)
(*   next_id  : the next value of the bigserial sequence of open_log.id    *)
(* The timestamp columns (created_at, updated_at) take now() and are read  *)
(* by none of the handlers; they are left out.                             *)
(***************************************************************************)
EXTENDS Integers, Sequences, FiniteSets, TLC

VARIABLES products, stock, open_log, next_id, ret, before, calls, sess

vars == <<products, stock, open_log, next_id, ret, before, calls, sess>>

-----------------------------------------------------------------------------
(* Bounds of the model and the sets the inputs are drawn from.             *)

\* the largest boxes_opened a call passes
MaxBoxes == 1
\* the number of handler calls of a session
MaxCalls == 3
\* the largest id the sequence of open_log.id hands out (SpecLedger)
MaxId == 3
\* the number of handler calls of each session when sessions interleave
MaxSessionCalls == 2

\* a barcode or a description is text: a sequence of characters
P1 == <<"P", "1">>
P2 == <<"P", "2">>
Cola == <<"C", "o", "l", "a">>
Barcodes == {P1, P2}
SplitModes == {"AUTO", "MANUAL", "NONE"}
Descriptions == {Cola}
\* barcode and description as passed to upsert_product: as they are stored,
\* padded with blanks, or blank
BarcodeIn == {P1, <<" ">> \o P2 \o <<" ">>, <<" ">>}
DescriptionIn == {Cola, <<" ", " ">>}
PackSizes == {6}
LogDates == {"2024-01-01"}
Notes == {""}

\* boxes_opened as passed to apply_opening; -1 is the invalid input
BoxesIn == (-1)..MaxBoxes
\* (singles_made, sixpk_made) as passed to apply_opening
ManualIn == {<<2, 1>>, <<-1, 0>>}
\* (auto_singles_per_box, auto_sixpk_per_box) of an AUTO product
AutoIn == {<<2, 0>>, <<1, 2>>}
\* (closed_boxes, singles, sixpk) as passed to set_stock
StockIn == {<<5, 10, 2>>}
\* the browser sessions that run handlers at the same time
Sessions == {1, 2}

-----------------------------------------------------------------------------
(* Tables.                                                                 *)

DB == [products |-> products, stock |-> stock, open_log |-> open_log, next_id |-> next_id]

EmptyDB == [products |-> <<>>, stock |-> <<>>, open_log |-> {}, next_id |-> 1]

Put(f, k, v) == [x \in (DOMAIN f) \cup {k} |-> IF x = k THEN v ELSE f[x]]

StockRow(c, s, k) == [closed_boxes |-> c, singles |-> s, sixpk |-> k]

-----------------------------------------------------------------------------
(* Single statements.                                                      *)

\* a slip: on conflict do update, the row is set back to zero
ensure_stock_row_reset(d, barcode) ==
    IF barcode \in DOMAIN d.products
    THEN [d EXCEPT !.stock = Put(d.stock, barcode, StockRow(0, 0, 0))]
    ELSE d

\* insert into stock select p.barcode, 0, 0, 0 from products p where p.barcode = b
\* on conflict do nothing
ensure_stock_row(d, barcode) ==
    IF barcode \in DOMAIN d.products /\ barcode \notin DOMAIN d.stock
    THEN [d EXCEPT !.stock = Put(d.stock, barcode, StockRow(0, 0, 0))]
    ELSE d

product_exists(d, barcode) == barcode \in DOMAIN d.products

\* a slip: on conflict do nothing, as in ensure_stock_row
upsert_stock_row_kept(d, barcode, c, s, k) ==
    IF barcode \in DOMAIN d.stock THEN d
    ELSE [d EXCEPT !.stock = Put(d.stock, barcode, StockRow(c, s, k))]

\* a slip: the update has no where clause and writes every snapshot
upsert_stock_row_all(d, barcode, c, s, k) ==
    [d EXCEPT !.stock = [x \in DOMAIN d.stock \cup {barcode} |-> StockRow(c, s, k)]]

\* insert into stock ... on conflict (barcode) do update; the foreign key
\* stock.barcode -> products.barcode rejects a row without a product.
upsert_stock_row(d, barcode, c, s, k) ==
    [d EXCEPT !.stock = Put(d.stock, barcode, StockRow(c, s, k))]

\* the check constraint of public.products
products_accepts(split_mode) == split_mode \in {"AUTO", "MANUAL", "NONE"}

\* a slip: on conflict (barcode) do nothing
insert_product_ignored(d, barcode, description, pack_size, split_mode, auto_singles, auto_sixpk) ==
    IF barcode \in DOMAIN d.products THEN d
    ELSE [d EXCEPT !.products =
            Put(d.products, barcode,
                [description |-> description, pack_size |-> pack_size,
                 split_mode |-> split_mode,
                 auto_singles_per_box |-> auto_singles,
                 auto_sixpk_per_box |-> auto_sixpk])]

\* insert into products ... on conflict (barcode) do update set ...
insert_product(d, barcode, description, pack_size, split_mode, auto_singles, auto_sixpk) ==
    [d EXCEPT !.products =
        Put(d.products, barcode,
            [description |-> description, pack_size |-> pack_size,
             split_mode |-> split_mode,
             auto_singles_per_box |-> auto_singles,
             auto_sixpk_per_box |-> auto_sixpk])]

\* a slip: the check (boxes_opened >= 0) is missing from the table
open_log_accepts_any(d, barcode, boxes_opened) ==
    barcode \in DOMAIN d.products

\* the check constraints and the foreign key of public.open_log
open_log_accepts(d, barcode, boxes_opened) ==
    barcode \in DOMAIN d.products /\ boxes_opened >= 0

\* a slip: the row is numbered one above the rows the log holds
insert_open_log_renumbered(d, log_date, barcode, boxes_opened, singles_to_store, sixpk_to_store, note) ==
    [d EXCEPT !.open_log = @ \cup {[id |-> Cardinality(d.open_log) + 1,
                                    log_date |-> log_date,
                                    barcode |-> barcode, boxes_opened |-> boxes_opened,
                                    singles_made |-> singles_to_store,
                                    sixpk_made |-> sixpk_to_store, note |-> note]},
              !.next_id = @ + 1]

\* insert into open_log: the row gets the next value of the sequence
insert_open_log(d, log_date, barcode, boxes_opened, singles_to_store, sixpk_to_store, note) ==
    [d EXCEPT !.open_log = @ \cup {[id |-> d.next_id, log_date |-> log_date,
                                    barcode |-> barcode, boxes_opened |-> boxes_opened,
                                    singles_made |-> singles_to_store,
                                    sixpk_made |-> sixpk_to_store, note |-> note]},
              !.next_id = @ + 1]

\* a slip: order by id asc
first_row_of(d) == CHOOSE r \in d.open_log : \A q \in d.open_log : q.id >= r.id

\* select * from open_log order by id desc limit 1 (on a non-empty table)
last_row_of(d) == CHOOSE r \in d.open_log : \A q \in d.open_log : q.id <= r.id

\* a slip: where barcode = (the barcode of that row)
delete_open_log_barcode(d, id) ==
    [d EXCEPT !.open_log =
        {r \in @ : \A q \in @ : q.id = id => r.barcode # q.barcode}]

\* delete from open_log where id = ...
delete_open_log(d, id) == [d EXCEPT !.open_log = {r \in @ : r.id # id}]

-----------------------------------------------------------------------------
(* The split derivation of apply_opening and of undo_last_entry.           *)

\* a slip: the AUTO branch stores the derived amounts in the row
apply_split_auto_stored(prod, boxes_opened, singles_made, sixpk_made) ==
    IF prod.split_mode = "AUTO"
    THEN [derived_singles |-> boxes_opened * prod.auto_singles_per_box,
          derived_sixpk |-> boxes_opened * prod.auto_sixpk_per_box,
          singles_to_store |-> boxes_opened * prod.auto_singles_per_box,
          sixpk_to_store |-> boxes_opened * prod.auto_sixpk_per_box]
    ELSE IF prod.split_mode = "MANUAL"
    THEN [derived_singles |-> singles_made, derived_sixpk |-> sixpk_made,
          singles_to_store |-> singles_made, sixpk_to_store |-> sixpk_made]
    ELSE [derived_singles |-> 0, derived_sixpk |-> 0,
          singles_to_store |-> 0, sixpk_to_store |-> 0]

\* a slip: the MANUAL branch stores the six-pack count in both columns
apply_split_manual_mixed(prod, boxes_opened, singles_made, sixpk_made) ==
    IF prod.split_mode = "AUTO"
    THEN [derived_singles |-> boxes_opened * prod.auto_singles_per_box,
          derived_sixpk |-> boxes_opened * prod.auto_sixpk_per_box,
          singles_to_store |-> 0, sixpk_to_store |-> 0]
    ELSE IF prod.split_mode = "MANUAL"
    THEN [derived_singles |-> singles_made, derived_sixpk |-> sixpk_made,
          singles_to_store |-> sixpk_made, sixpk_to_store |-> sixpk_made]
    ELSE [derived_singles |-> 0, derived_sixpk |-> 0,
          singles_to_store |-> 0, sixpk_to_store |-> 0]

\* a slip: no branch for NONE, the product falls into the manual branch
apply_split_none_manual(prod, boxes_opened, singles_made, sixpk_made) ==
    IF prod.split_mode = "AUTO"
    THEN [derived_singles |-> boxes_opened * prod.auto_singles_per_box,
          derived_sixpk |-> boxes_opened * prod.auto_sixpk_per_box,
          singles_to_store |-> 0, sixpk_to_store |-> 0]
    ELSE [derived_singles |-> singles_made, derived_sixpk |-> sixpk_made,
          singles_to_store |-> singles_made, sixpk_to_store |-> sixpk_made]

\* a slip: the manual singles are cut down to what the opened boxes hold
apply_split_capped(prod, boxes_opened, singles_made, sixpk_made) ==
    LET max_units == prod.pack_size * boxes_opened
        kept == IF singles_made + sixpk_made * 6 > max_units
                THEN max_units - sixpk_made * 6 ELSE singles_made
    IN  IF prod.split_mode = "AUTO"
        THEN [derived_singles |-> boxes_opened * prod.auto_singles_per_box,
              derived_sixpk |-> boxes_opened * prod.auto_sixpk_per_box,
              singles_to_store |-> 0, sixpk_to_store |-> 0]
        ELSE IF prod.split_mode = "MANUAL"
        THEN [derived_singles |-> kept, derived_sixpk |-> sixpk_made,
              singles_to_store |-> kept, sixpk_to_store |-> sixpk_made]
        ELSE [derived_singles |-> 0, derived_sixpk |-> 0,
              singles_to_store |-> 0, sixpk_to_store |-> 0]

apply_split(prod, boxes_opened, singles_made, sixpk_made) ==
    IF prod.split_mode = "AUTO"
    THEN [derived_singles |-> boxes_opened * prod.auto_singles_per_box,
          derived_sixpk |-> boxes_opened * prod.auto_sixpk_per_box,
          singles_to_store |-> 0, sixpk_to_store |-> 0]
    ELSE IF prod.split_mode = "MANUAL"
    THEN [derived_singles |-> singles_made, derived_sixpk |-> sixpk_made,
          singles_to_store |-> singles_made, sixpk_to_store |-> sixpk_made]
    ELSE [derived_singles |-> 0, derived_sixpk |-> 0,
          singles_to_store |-> 0, sixpk_to_store |-> 0]

\* a slip: undo takes the amounts of an AUTO row from its stored columns
undo_split_stored(prod, boxes_opened, singles_made, sixpk_made) ==
    IF prod.split_mode = "NONE"
    THEN [derived_singles |-> 0, derived_sixpk |-> 0]
    ELSE [derived_singles |-> singles_made, derived_sixpk |-> sixpk_made]

\* a slip: the AUTO branch takes auto_singles_per_box for both amounts
undo_split_copied(prod, boxes_opened, singles_made, sixpk_made) ==
    IF prod.split_mode = "AUTO"
    THEN [derived_singles |-> boxes_opened * prod.auto_singles_per_box,
          derived_sixpk |-> boxes_opened * prod.auto_singles_per_box]
    ELSE IF prod.split_mode = "MANUAL"
    THEN [derived_singles |-> singles_made, derived_sixpk |-> sixpk_made]
    ELSE [derived_singles |-> 0, derived_sixpk |-> 0]

undo_split(prod, boxes_opened, singles_made, sixpk_made) ==
    IF prod.split_mode = "AUTO"
    THEN [derived_singles |-> boxes_opened * prod.auto_singles_per_box,
          derived_sixpk |-> boxes_opened * prod.auto_sixpk_per_box]
    ELSE IF prod.split_mode = "MANUAL"
    THEN [derived_singles |-> singles_made, derived_sixpk |-> sixpk_made]
    ELSE [derived_singles |-> 0, derived_sixpk |-> 0]

\* a slip: the six-packs are added to the singles
apply_new_stock_mixed(stk, boxes_opened, sp) ==
    StockRow(stk.closed_boxes - boxes_opened,
             stk.singles + sp.derived_sixpk,
             stk.sixpk + sp.derived_sixpk)

apply_new_stock(stk, boxes_opened, sp) ==
    StockRow(stk.closed_boxes - boxes_opened,
             stk.singles + sp.derived_singles,
             stk.sixpk + sp.derived_sixpk)

\* a slip: the reversed singles and six-packs are floored at zero
undo_new_stock_floored(stk, boxes_opened, sp) ==
    StockRow(stk.closed_boxes + boxes_opened,
             IF stk.singles < sp.derived_singles THEN 0 ELSE stk.singles - sp.derived_singles,
             IF stk.sixpk < sp.derived_sixpk THEN 0 ELSE stk.sixpk - sp.derived_sixpk)

\* a slip: undo takes the boxes off again
undo_new_stock_minus(stk, boxes_opened, sp) ==
    StockRow(stk.closed_boxes - boxes_opened,
             stk.singles - sp.derived_singles,
             stk.sixpk - sp.derived_sixpk)

undo_new_stock(stk, boxes_opened, sp) ==
    StockRow(stk.closed_boxes + boxes_opened,
             stk.singles - sp.derived_singles,
             stk.sixpk - sp.derived_sixpk)

-----------------------------------------------------------------------------
(* Handlers run from start to end on a database value d.  Each yields      *)
(* [d, ok, err, val]: the database it leaves, whether it returned, the     *)
(* exception it raised and the value it returned.                          *)

Returns(d, val) == [d |-> d, ok |-> TRUE, err |-> "", val |-> val]
Raises(d, err) == [d |-> d, ok |-> FALSE, err |-> err, val |-> <<>>]

get_stock(d, barcode) ==
    IF ~product_exists(d, barcode)
    THEN Raises(d, "Unknown product barcode")
    ELSE LET d1 == ensure_stock_row(d, barcode)
         IN  Returns(d1, d1.stock[barcode])

set_stock(d, barcode, c, s, k) ==
    IF ~product_exists(d, barcode)
    THEN Raises(d, "Cannot set stock: product not found")
    ELSE Returns(upsert_stock_row(d, barcode, c, s, k), <<>>)

\* str.strip(): the text without its leading and trailing whitespace
Whitespace == {" "}
RECURSIVE lstrip(_)
lstrip(t) == IF t # <<>> /\ Head(t) \in Whitespace THEN lstrip(Tail(t)) ELSE t
RECURSIVE rstrip(_)
rstrip(t) ==
    IF t # <<>> /\ t[Len(t)] \in Whitespace THEN rstrip(SubSeq(t, 1, Len(t) - 1)) ELSE t
\* a slip: the text is taken as it comes
strip_skipped(t) == t

strip(t) == rstrip(lstrip(t))

\* str.lower() on the letters the inputs use
lower(t) ==
    [i \in 1..Len(t) |->
        CASE t[i] = "B" -> "b" [] t[i] = "C" -> "c" [] t[i] = "D" -> "d"
          [] t[i] = "P" -> "p" [] OTHER -> t[i]]

\* the header words of an imported sheet
HeaderBarcode == <<"b", "a", "r", "c", "o", "d", "e">>
HeaderDescription == <<"d", "e", "s", "c", "r", "i", "p", "t", "i", "o", "n">>

upsert_product(d, barcode_in, description_in, pack_size, split_mode, auto_singles, auto_sixpk) ==
    LET barcode == strip(barcode_in)
        description == strip(description_in)
    IN  IF barcode = <<>> \/ description = <<>>
        THEN Raises(d, "Barcode and Description are required.")
        ELSE IF lower(barcode) = HeaderBarcode \/ lower(description) = HeaderDescription
        THEN Raises(d, "Invalid barcode/description (looks like a header row).")
        ELSE IF ~products_accepts(split_mode)
        THEN Raises(d, "CheckViolation products_split_mode_check")
        ELSE LET d1 == insert_product(d, barcode, description, pack_size, split_mode,
                                      auto_singles, auto_sixpk)
             IN  Returns(ensure_stock_row(d1, barcode), <<>>)

\* a slip: the missing product is reported the way undo_last_entry reports it
apply_no_product_returned(d) == Returns(d, <<FALSE>>)

\* if not prod: raise ValueError("Product not found.")
apply_no_product(d) == Raises(d, "Product not found.")

apply_opening(d, log_date, barcode, boxes_opened, singles_made, sixpk_made, note) ==
    IF barcode \notin DOMAIN d.products
    THEN apply_no_product(d)
    ELSE LET prod == d.products[barcode]
             g == get_stock(d, barcode)
             stk == g.val
             sp == apply_split(prod, boxes_opened, singles_made, sixpk_made)
             new == apply_new_stock(stk, boxes_opened, sp)
         IN  IF ~open_log_accepts(g.d, barcode, boxes_opened)
             THEN Raises(g.d, "CheckViolation open_log_boxes_opened_check")
             ELSE LET d2 == insert_open_log(g.d, log_date, barcode, boxes_opened,
                                            sp.singles_to_store, sp.sixpk_to_store, note)
                      w == set_stock(d2, barcode, new.closed_boxes, new.singles, new.sixpk)
                  IN  IF ~w.ok THEN w
                      ELSE Returns(w.d, <<prod.description, new.closed_boxes, new.singles,
                                          new.sixpk, sp.derived_singles, sp.derived_sixpk>>)

\* a slip: the empty log is reported as an entry undone
undo_nothing_found(d) == Returns(d, <<TRUE>>)

\* if not last_row: return False, None
undo_nothing(d) == Returns(d, <<FALSE>>)

\* a slip: the snapshot written is that of another product of the catalog
undo_row_misplaced(d, last_row) ==
    LET barcode == last_row.barcode
        others == DOMAIN d.products \ {barcode}
        target == IF others = {} THEN barcode ELSE CHOOSE x \in others : TRUE
    IN  IF barcode \notin DOMAIN d.products
        THEN Returns(d, <<FALSE>>)
        ELSE LET prod == d.products[barcode]
                 g == get_stock(d, barcode)
                 stk == g.val
                 sp == undo_split(prod, last_row.boxes_opened,
                                  last_row.singles_made, last_row.sixpk_made)
                 new == undo_new_stock(stk, last_row.boxes_opened, sp)
                 d2 == delete_open_log(g.d, last_row.id)
                 w == set_stock(d2, target, new.closed_boxes, new.singles, new.sixpk)
             IN  IF ~w.ok THEN w
                 ELSE Returns(w.d, <<TRUE, barcode, prod.description, new.closed_boxes>>)

undo_row(d, last_row) ==
    LET barcode == last_row.barcode
    IN  IF barcode \notin DOMAIN d.products
        THEN Returns(d, <<FALSE>>)
        ELSE LET prod == d.products[barcode]
                 g == get_stock(d, barcode)
                 stk == g.val
                 sp == undo_split(prod, last_row.boxes_opened,
                                  last_row.singles_made, last_row.sixpk_made)
                 new == undo_new_stock(stk, last_row.boxes_opened, sp)
                 d2 == delete_open_log(g.d, last_row.id)
                 w == set_stock(d2, barcode, new.closed_boxes, new.singles, new.sixpk)
             IN  IF ~w.ok THEN w
                 ELSE Returns(w.d, <<TRUE, barcode, prod.description, new.closed_boxes>>)

undo_last_entry(d) ==
    IF d.open_log = {} THEN undo_nothing(d) ELSE undo_row(d, last_row_of(d))

-----------------------------------------------------------------------------
(* The sequential program: one session, one handler call per step.         *)
(* ret is the last call (its name, arguments and outcome).  before is the  *)
(* database as it was when the last call, a successful apply_opening, was  *)
(* made; an undo_last_entry that follows it at once keeps it, every other  *)
(* call clears it.  calls counts the calls of the session.                 *)

Commit(r) ==
    /\ products' = r.d.products
    /\ stock' = r.d.stock
    /\ open_log' = r.d.open_log
    /\ next_id' = r.d.next_id

Call(op, args, r) == [op |-> op, args |-> args, ok |-> r.ok, err |-> r.err, val |-> r.val]

NoCall == [op |-> "none", args |-> <<>>, ok |-> TRUE, err |-> "", val |-> <<>>]

NoDB == [products |-> <<>>, stock |-> <<>>, open_log |-> {}, next_id |-> 0]

\* what the "Save Product" form passes: the multipliers are 0 unless AUTO
FormAuto(m) == IF m = "AUTO" THEN AutoIn ELSE {<<0, 0>>}

\* "Save Product" pressed: the form passes multipliers 0 unless AUTO
Saved(d, b, m, a) ==
    LET f == IF m = "AUTO" THEN a ELSE <<0, 0>>
    IN  upsert_product(d, b, Cola, 6, m, f[1], f[2]).d

\* the catalogs a session starts from: P1 saved, P2 saved or not
Seeded(m1, a1, m2, a2) ==
    IF m2 = "absent" THEN Saved(EmptyDB, P1, m1, a1)
    ELSE Saved(Saved(EmptyDB, P1, m1, a1), P2, m2, a2)

SeedDBs ==
    {Seeded(m1, <<2, 0>>, m2, <<1, 2>>) : m1 \in SplitModes, m2 \in SplitModes \cup {"absent"}}

InitDB(d) ==
    /\ products = d.products
    /\ stock = d.stock
    /\ open_log = d.open_log
    /\ next_id = d.next_id

\* a session that runs no handler
Idle ==
    [op |-> "none", pc |-> "idle", args |-> <<>>, prod |-> {}, stk |-> {},
     last_row |-> {}, new |-> {}, at |-> {}, val |-> <<>>, err |-> "", n |-> 0]

Init ==
    /\ \E d \in SeedDBs : InitDB(d)
    /\ ret = NoCall
    /\ before = NoDB
    /\ calls = 0
    /\ sess = [s \in Sessions |-> Idle]

UpsertProduct ==
    \E b \in BarcodeIn, ds \in DescriptionIn, ps \in PackSizes, m \in SplitModes :
      \E a \in FormAuto(m) :
        LET r == upsert_product(DB, b, ds, ps, m, a[1], a[2])
        IN  /\ Commit(r)
            /\ ret' = Call("upsert_product", <<b, ds, ps, m, a[1], a[2]>>, r)
            /\ before' = NoDB

GetStock ==
    \E b \in Barcodes :
        LET r == get_stock(DB, b)
        IN  /\ Commit(r)
            /\ ret' = Call("get_stock", <<b>>, r)
            /\ before' = NoDB

SetStock ==
    \E b \in Barcodes, t \in StockIn :
        LET r == set_stock(DB, b, t[1], t[2], t[3])
        IN  /\ Commit(r)
            /\ ret' = Call("set_stock", <<b, t[1], t[2], t[3]>>, r)
            /\ before' = NoDB

ApplyOpening ==
    \E dt \in LogDates, b \in Barcodes, n \in BoxesIn, mi \in ManualIn, nt \in Notes :
        LET r == apply_opening(DB, dt, b, n, mi[1], mi[2], nt)
        IN  /\ Commit(r)
            /\ ret' = Call("apply_opening", <<dt, b, n, mi[1], mi[2], nt>>, r)
            /\ before' = IF r.ok THEN DB ELSE NoDB

UndoLastEntry ==
    LET r == undo_last_entry(DB)
    IN  /\ Commit(r)
        /\ ret' = Call("undo_last_entry", <<>>, r)
        /\ before' = IF ret.op = "apply_opening" THEN before ELSE NoDB

Tick == calls < MaxCalls /\ calls' = calls + 1 /\ UNCHANGED sess

Next ==
    \/ Tick /\ UpsertProduct
    \/ Tick /\ GetStock
    \/ Tick /\ SetStock
    \/ Tick /\ ApplyOpening
    \/ Tick /\ UndoLastEntry

Spec == Init /\ [][Next]_vars

-----------------------------------------------------------------------------
(* The ledger alone: a fixed catalog, all snapshots zero, an empty log,    *)
(* and only apply_opening and undo_last_entry are called.  The sequence    *)
(* of open_log.id bounds the number of entries.                            *)

LedgerApply == next_id <= MaxId /\ ApplyOpening /\ UNCHANGED <<calls, sess>>

LedgerUndo == UndoLastEntry /\ UNCHANGED <<calls, sess>>

NextLedger == LedgerApply \/ LedgerUndo

SpecLedger == Init /\ [][NextLedger]_vars

-----------------------------------------------------------------------------
(* The daily-entry form: the product is picked from the catalog, the       *)
(* counts are number inputs with min_value = 0, the manual counts show for *)
(* a MANUAL product only, and "Validate manual split" is a checkbox whose  *)
(* outcome is a message on the page.                                       *)

\* what the validation block puts on the page
validation_message(prod, validate, boxes_opened, singles_made, sixpk_made) ==
    LET max_units == prod.pack_size * boxes_opened
        used_units == singles_made + sixpk_made * 6
    IN  IF ~(validate /\ prod.split_mode = "MANUAL") THEN "none"
        ELSE IF prod.pack_size = 0 THEN "error: pack size is missing"
        ELSE IF used_units > max_units THEN "error: units above max"
        ELSE "caption: units used"

\* the form is filled in and "Save Daily Entry" pressed
SaveDailyEntry ==
    /\ next_id <= MaxId
    /\ \E dt \in LogDates, b \in DOMAIN products, n \in 0..MaxBoxes, mi \in ManualIn,
          nt \in Notes, validate \in BOOLEAN :
         /\ mi[1] >= 0 /\ mi[2] >= 0
         /\ LET prod == products[b]
                cur == get_stock(DB, b)
                f == IF prod.split_mode = "MANUAL" THEN mi ELSE <<0, 0>>
                msg == validation_message(prod, validate, n, f[1], f[2])
                r == apply_opening(cur.d, dt, b, n, f[1], f[2], nt)
            IN  /\ Commit(r)
                /\ ret' = Call("apply_opening", <<dt, b, n, f[1], f[2], nt, validate, msg>>, r)
                /\ before' = IF r.ok THEN cur.d ELSE NoDB
    /\ UNCHANGED <<calls, sess>>

\* "Undo last entry" pressed
UndoPressed == UndoLastEntry /\ UNCHANGED <<calls, sess>>

NextEntry == SaveDailyEntry \/ UndoPressed

SpecEntry == Init /\ [][NextEntry]_vars

-----------------------------------------------------------------------------
(* Runs of entries and their undos: stock corrections first, then entries, *)
(* then undos, no more of them than the run has entries.  Here before is   *)
(* a stack: the database as it was at each entry of the run that is not    *)
(* yet undone, the latest first.                                           *)

InitUnwind ==
    /\ \E d \in SeedDBs : InitDB(d)
    /\ ret = NoCall
    /\ before = <<>>
    /\ calls = 0
    /\ sess = [s \in Sessions |-> Idle]

\* "Update Stock" pressed while no run is under way
UnwindSet ==
    /\ before = <<>>
    /\ \E b \in Barcodes, t \in StockIn :
         LET r == set_stock(DB, b, t[1], t[2], t[3])
         IN  /\ Commit(r)
             /\ ret' = Call("set_stock", <<b, t[1], t[2], t[3]>>, r)
    /\ UNCHANGED <<before, calls, sess>>

\* an entry of the run, made before any of the run's undos
UnwindApply ==
    /\ next_id <= MaxId
    /\ ret.op # "undo_last_entry" \/ before = <<>>
    /\ \E dt \in LogDates, b \in Barcodes, n \in 1..MaxBoxes, nt \in Notes :
         LET r == apply_opening(DB, dt, b, n, 2, 1, nt)
         IN  /\ Commit(r)
             /\ ret' = Call("apply_opening", <<dt, b, n, 2, 1, nt>>, r)
             /\ before' = IF r.ok THEN <<DB>> \o before ELSE before
    /\ UNCHANGED <<calls, sess>>

\* an undo of the run
UnwindUndo ==
    /\ before # <<>>
    /\ LET r == undo_last_entry(DB)
       IN  /\ Commit(r)
           /\ ret' = Call("undo_last_entry", <<>>, r)
           /\ before' = Tail(before)
    /\ UNCHANGED <<calls, sess>>

NextUnwind == UnwindSet \/ UnwindApply \/ UnwindUndo

SpecUnwind == InitUnwind /\ [][NextUnwind]_vars

-----------------------------------------------------------------------------
(* The ledger with a product saved again between an entry and its undo:    *)
(* apply_opening, "Save Product" (as AUTO) on the product of the entry,    *)
(* then undo_last_entry.  Through these two calls before stays the        *)
(* database as it was when the apply_opening was called.                   *)

\* an entry of 1..MaxBoxes boxes (2 singles and 1 six-pack if MANUAL)
DriftApply ==
    /\ next_id <= MaxId
    /\ \E dt \in LogDates, b \in Barcodes, n \in 1..MaxBoxes, nt \in Notes :
         LET r == apply_opening(DB, dt, b, n, 2, 1, nt)
         IN  /\ Commit(r)
             /\ ret' = Call("apply_opening", <<dt, b, n, 2, 1, nt>>, r)
             /\ before' = IF r.ok THEN DB ELSE NoDB
    /\ UNCHANGED <<calls, sess>>

\* "Save Product", split mode AUTO, on the product of the entry just made
DriftSave ==
    /\ ret.op = "apply_opening" /\ ret.ok
    /\ \E ds \in Descriptions, ps \in PackSizes, m \in {"AUTO"} :
         \E a \in FormAuto(m) :
           LET b == ret.args[2]
               r == upsert_product(DB, b, ds, ps, m, a[1], a[2])
           IN  /\ Commit(r)
               /\ ret' = Call("upsert_product", <<b, ds, ps, m, a[1], a[2]>>, r)
               /\ before' = before
    /\ UNCHANGED <<calls, sess>>

\* undo_last_entry right after that save
DriftUndo ==
    /\ ret.op = "upsert_product" /\ before # NoDB
    /\ LET r == undo_last_entry(DB)
       IN  /\ Commit(r)
           /\ ret' = Call("undo_last_entry", <<>>, r)
           /\ before' = before
    /\ UNCHANGED <<calls, sess>>

NextDrift == DriftApply \/ DriftSave \/ DriftUndo

SpecDrift == Init /\ [][NextDrift]_vars

-----------------------------------------------------------------------------
(* The handlers statement by statement.  Every execute() is a transaction  *)
(* of its own, so between two statements of a call the other session may   *)
(* run statements of its call, and a statement may fail to connect         *)
(* (_connect raises), which ends the call with what it committed so far.   *)
(* sess[s] is the call session s runs: its handler (op), the statement it  *)
(* is at (pc), its arguments and local variables (prod, stk, last_row and  *)
(* new hold at most one row), its outcome (val, err) and the number of the *)
(* call (n).  at holds the database as it was when the call began, for the *)
(* calls kept on record (SpecCatalog, SpecRace, SpecUndoRace below).       *)

Running(s) == sess[s].pc \notin {"idle", "returned", "raised"}

SetDB(d) ==
    /\ products' = d.products
    /\ stock' = d.stock
    /\ open_log' = d.open_log
    /\ next_id' = d.next_id

SameDB == UNCHANGED <<products, stock, open_log, next_id>>

Goto(s, pc) == sess' = [sess EXCEPT ![s].pc = pc]

\* the call ends: its local variables are gone, its outcome stays; where
\* the database of its beginning was noted (at), that, the arguments, the
\* row and the snapshot read and the snapshot computed stay too, until the
\* session's next call
End(c, pc, val, err) ==
    [Idle EXCEPT !.op = c.op, !.pc = pc, !.val = val, !.err = err, !.n = c.n,
                 !.at = c.at,
                 !.args = IF c.at = {} THEN <<>> ELSE c.args,
                 !.stk = IF c.at = {} THEN {} ELSE c.stk,
                 !.last_row = IF c.at = {} THEN {} ELSE c.last_row,
                 !.new = IF c.at = {} THEN {} ELSE c.new]

Raise(s, err) == sess' = [sess EXCEPT ![s] = End(sess[s], "raised", <<>>, err)]

Return(s, val) == sess' = [sess EXCEPT ![s] = End(sess[s], "returned", val, "")]

CanCall(s) == ~Running(s) /\ sess[s].n < MaxSessionCalls

TheRow(rows) == CHOOSE r \in rows : TRUE

\* apply_opening is called
StartApply(s) ==
    \E dt \in LogDates, b \in Barcodes, n \in 1..MaxBoxes, nt \in Notes :
        /\ CanCall(s)
        /\ sess' = [sess EXCEPT ![s] =
                       [Idle EXCEPT !.op = "apply_opening", !.pc = "a_product",
                                    !.args = <<dt, b, n, 2, 1, nt>>, !.n = sess[s].n + 1]]
        /\ SameDB
        /\ UNCHANGED <<ret, before, calls>>

\* prod = select * from products where barcode = ...; raise if none
ApplyProduct(s) ==
    /\ sess[s].pc = "a_product"
    /\ LET b == sess[s].args[2]
       IN  IF b \in DOMAIN products
           THEN sess' = [sess EXCEPT ![s].pc = "g_exists", ![s].prod = {products[b]}]
           ELSE Raise(s, "Product not found.")
    /\ SameDB
    /\ UNCHANGED <<ret, before, calls>>

\* undo_last_entry is called
StartUndo(s) ==
    /\ CanCall(s)
    /\ sess' = [sess EXCEPT ![s] = [Idle EXCEPT !.op = "undo_last_entry", !.pc = "u_last",
                                                 !.n = sess[s].n + 1]]
    /\ SameDB
    /\ UNCHANGED <<ret, before, calls>>

\* last_row = select * from open_log order by id desc limit 1; return if none
UndoLast(s) ==
    /\ sess[s].pc = "u_last"
    /\ IF open_log = {}
       THEN Return(s, undo_nothing(DB).val)
       ELSE sess' = [sess EXCEPT ![s].pc = "u_product", ![s].last_row = {last_row_of(DB)}]
    /\ SameDB
    /\ UNCHANGED <<ret, before, calls>>

\* prod = select * from products where barcode = last_row.barcode; return if none;
\* args[2] becomes the barcode the call goes on with
UndoProduct(s) ==
    /\ sess[s].pc = "u_product"
    /\ LET b == TheRow(sess[s].last_row).barcode
       IN  IF b \in DOMAIN products
           THEN sess' = [sess EXCEPT ![s].pc = "g_exists", ![s].prod = {products[b]},
                                     ![s].args = <<"", b>>]
           ELSE Return(s, <<FALSE>>)
    /\ SameDB
    /\ UNCHANGED <<ret, before, calls>>

\* get_stock: product_exists
GetExists(s) ==
    /\ sess[s].pc = "g_exists"
    /\ IF product_exists(DB, sess[s].args[2])
       THEN Goto(s, "g_ensure")
       ELSE Raise(s, "Unknown product barcode")
    /\ SameDB
    /\ UNCHANGED <<ret, before, calls>>

\* get_stock: ensure_stock_row
GetEnsure(s) ==
    /\ sess[s].pc = "g_ensure"
    /\ SetDB(ensure_stock_row(DB, sess[s].args[2]))
    /\ Goto(s, "g_select")
    /\ UNCHANGED <<ret, before, calls>>

\* get_stock: select * from stock where barcode = ...; called on its own it
\* returns the row, else the caller computes the new snapshot from the row
GetSelect(s) ==
    /\ sess[s].pc = "g_select"
    /\ LET b == sess[s].args[2]
           stk == IF b \in DOMAIN stock THEN stock[b] ELSE StockRow(0, 0, 0)
           prod == TheRow(sess[s].prod)
       IN  IF sess[s].op = "get_stock"
           THEN Return(s, <<stk.closed_boxes, stk.singles, stk.sixpk>>)
           ELSE IF sess[s].op = "apply_opening"
           THEN LET sp == apply_split(prod, sess[s].args[3], sess[s].args[4], sess[s].args[5])
                IN  sess' = [sess EXCEPT ![s].pc = "a_insert", ![s].stk = {stk},
                                ![s].new = {apply_new_stock(stk, sess[s].args[3], sp)}]
           ELSE LET row == TheRow(sess[s].last_row)
                    sp == undo_split(prod, row.boxes_opened, row.singles_made, row.sixpk_made)
                IN  sess' = [sess EXCEPT ![s].pc = "u_delete", ![s].stk = {stk},
                                ![s].new = {undo_new_stock(stk, row.boxes_opened, sp)}]
    /\ SameDB
    /\ UNCHANGED <<ret, before, calls>>

\* apply_opening: insert into open_log
ApplyInsert(s) ==
    /\ sess[s].pc = "a_insert"
    /\ LET a == sess[s].args
           sp == apply_split(TheRow(sess[s].prod), a[3], a[4], a[5])
       IN  IF open_log_accepts(DB, a[2], a[3])
           THEN /\ SetDB(insert_open_log(DB, a[1], a[2], a[3],
                                         sp.singles_to_store, sp.sixpk_to_store, a[6]))
                /\ Goto(s, "s_exists")
           ELSE Raise(s, "CheckViolation open_log") /\ SameDB
    /\ UNCHANGED <<ret, before, calls>>

\* undo_last_entry: delete from open_log where id = last_row.id
UndoDelete(s) ==
    /\ sess[s].pc = "u_delete"
    /\ SetDB(delete_open_log(DB, TheRow(sess[s].last_row).id))
    /\ Goto(s, "s_exists")
    /\ UNCHANGED <<ret, before, calls>>

\* set_stock: product_exists
SetExists(s) ==
    /\ sess[s].pc = "s_exists"
    /\ IF product_exists(DB, sess[s].args[2])
       THEN Goto(s, "s_upsert")
       ELSE Raise(s, "Cannot set stock: product not found")
    /\ SameDB
    /\ UNCHANGED <<ret, before, calls>>

\* a variant without the race: the write adds the call's change to the
\* row as it is now (update ... set closed_boxes = closed_boxes - n, ...)
SetUpsertAdded(s) ==
    /\ sess[s].pc = "s_upsert"
    /\ LET b == sess[s].args[2]
           new == TheRow(sess[s].new)
           stk == TheRow(sess[s].stk)
           cur == IF b \in DOMAIN stock THEN stock[b] ELSE StockRow(0, 0, 0)
           prod == TheRow(sess[s].prod)
       IN  /\ SetDB(upsert_stock_row(DB, b, cur.closed_boxes + new.closed_boxes - stk.closed_boxes,
                                     cur.singles + new.singles - stk.singles,
                                     cur.sixpk + new.sixpk - stk.sixpk))
           /\ sess' = [sess EXCEPT ![s] =
                 End(sess[s], "returned",
                     <<prod.description, new.closed_boxes, new.singles, new.sixpk>>, "")]
    /\ UNCHANGED <<ret, before, calls>>

\* set_stock: insert into stock ... on conflict do update, then the caller returns
SetUpsert(s) ==
    /\ sess[s].pc = "s_upsert"
    /\ LET b == sess[s].args[2]
           new == TheRow(sess[s].new)
           prod == TheRow(sess[s].prod)
       IN  /\ SetDB(upsert_stock_row(DB, b, new.closed_boxes, new.singles, new.sixpk))
           /\ sess' = [sess EXCEPT ![s] =
                 End(sess[s], "returned",
                     IF sess[s].op = "set_stock" THEN <<>>
                     ELSE IF sess[s].op = "apply_opening"
                     THEN LET a == sess[s].args
                              sp == apply_split(prod, a[3], a[4], a[5])
                          IN  <<prod.description, new.closed_boxes, new.singles, new.sixpk,
                                sp.derived_singles, sp.derived_sixpk>>
                     ELSE <<TRUE, b, prod.description, new.closed_boxes>>, "")]
    /\ UNCHANGED <<ret, before, calls>>

\* upsert_product is called: the arguments are checked before any statement
StartUpsert(s) ==
    \E b_in \in BarcodeIn, ds_in \in DescriptionIn, ps \in PackSizes, m \in SplitModes :
      \E a \in FormAuto(m) :
        /\ CanCall(s)
        /\ LET b == strip(b_in)
               ds == strip(ds_in)
               c == [Idle EXCEPT !.op = "upsert_product", !.pc = "p_insert",
                                 !.args = <<b, ds, ps, m, a[1], a[2]>>,
                                 !.at = {DB}, !.n = sess[s].n + 1]
           IN  IF b = <<>> \/ ds = <<>>
               THEN sess' = [sess EXCEPT ![s] =
                       End(c, "raised", <<>>, "Barcode and Description are required.")]
               ELSE IF lower(b) = HeaderBarcode \/ lower(ds) = HeaderDescription
               THEN sess' = [sess EXCEPT ![s] =
                       End(c, "raised", <<>>,
                           "Invalid barcode/description (looks like a header row).")]
               ELSE sess' = [sess EXCEPT ![s] = c]
        /\ SameDB
        /\ UNCHANGED <<ret, before, calls>>

\* upsert_product: insert into products ... on conflict do update
UpsertInsert(s) ==
    /\ sess[s].pc = "p_insert"
    /\ LET a == sess[s].args
       IN  IF products_accepts(a[4])
           THEN /\ SetDB(insert_product(DB, a[1], a[2], a[3], a[4], a[5], a[6]))
                /\ Goto(s, "p_ensure")
           ELSE Raise(s, "CheckViolation products_split_mode_check") /\ SameDB
    /\ UNCHANGED <<ret, before, calls>>

\* upsert_product: ensure_stock_row, then the call returns
UpsertEnsure(s) ==
    /\ sess[s].pc = "p_ensure"
    /\ SetDB(ensure_stock_row(DB, sess[s].args[1]))
    /\ Return(s, <<>>)
    /\ UNCHANGED <<ret, before, calls>>

\* get_stock is called on its own
StartGet(s) ==
    \E b \in Barcodes :
        /\ CanCall(s)
        /\ sess' = [sess EXCEPT ![s] =
                       [Idle EXCEPT !.op = "get_stock", !.pc = "g_exists",
                                    !.args = <<"", b>>, !.at = {DB}, !.n = sess[s].n + 1]]
        /\ SameDB
        /\ UNCHANGED <<ret, before, calls>>

\* set_stock is called on its own
StartSet(s) ==
    \E b \in Barcodes, t \in StockIn :
        /\ CanCall(s)
        /\ sess' = [sess EXCEPT ![s] =
                       [Idle EXCEPT !.op = "set_stock", !.pc = "s_exists",
                                    !.args = <<"", b>>, !.new = {StockRow(t[1], t[2], t[3])},
                                    !.at = {DB}, !.n = sess[s].n + 1]]
        /\ SameDB
        /\ UNCHANGED <<ret, before, calls>>

\* apply_opening is called in a session whose calls are kept on record;
\* session s opens s boxes, so that a row and a snapshot tell whose they are
StartApplyNoted(s) ==
    \E dt \in LogDates, b \in Barcodes, n \in {s}, nt \in Notes :
        /\ CanCall(s)
        /\ sess' = [sess EXCEPT ![s] =
                       [Idle EXCEPT !.op = "apply_opening", !.pc = "a_product",
                                    !.args = <<dt, b, n, 2, 1, nt>>,
                                    !.at = {DB}, !.n = sess[s].n + 1]]
        /\ SameDB
        /\ UNCHANGED <<ret, before, calls>>

\* apply_opening is called with any boxes_opened and manual counts
StartApplyAny(s) ==
    \E dt \in LogDates, b \in Barcodes, n \in BoxesIn, mi \in ManualIn, nt \in Notes :
        /\ CanCall(s)
        /\ sess' = [sess EXCEPT ![s] =
                       [Idle EXCEPT !.op = "apply_opening", !.pc = "a_product",
                                    !.args = <<dt, b, n, mi[1], mi[2], nt>>,
                                    !.at = {DB}, !.n = sess[s].n + 1]]
        /\ SameDB
        /\ UNCHANGED <<ret, before, calls>>

\* the statement the call is at cannot connect: execute raises
Fail(s) ==
    /\ Running(s)
    /\ Raise(s, "OperationalError")
    /\ SameDB
    /\ UNCHANGED <<ret, before, calls>>

NextSteps ==
    \/ \E s \in Sessions : StartApply(s)
    \/ \E s \in Sessions : ApplyProduct(s)
    \/ \E s \in Sessions : ApplyInsert(s)
    \/ \E s \in Sessions : StartUndo(s)
    \/ \E s \in Sessions : UndoLast(s)
    \/ \E s \in Sessions : UndoProduct(s)
    \/ \E s \in Sessions : UndoDelete(s)
    \/ \E s \in Sessions : GetExists(s)
    \/ \E s \in Sessions : GetEnsure(s)
    \/ \E s \in Sessions : GetSelect(s)
    \/ \E s \in Sessions : SetExists(s)
    \/ \E s \in Sessions : SetUpsert(s)
    \/ \E s \in Sessions : Fail(s)

\* the sessions start on a catalog that holds P1 and not P2
InitSteps ==
    /\ \E m \in SplitModes : InitDB(Seeded(m, <<1, 2>>, "absent", <<0, 0>>))
    /\ ret = NoCall
    /\ before = NoDB
    /\ calls = 0
    /\ sess = [s \in Sessions |-> Idle]

SpecSteps == InitSteps /\ [][NextSteps]_vars

\* one session alone, its calls one after the other
NextSolo ==
    \/ StartApply(1) \/ ApplyProduct(1) \/ ApplyInsert(1)
    \/ StartUndo(1) \/ UndoLast(1) \/ UndoProduct(1) \/ UndoDelete(1)
    \/ GetExists(1) \/ GetEnsure(1) \/ GetSelect(1)
    \/ SetExists(1) \/ SetUpsert(1)
    \/ Fail(1)

SpecSolo == InitSteps /\ [][NextSolo]_vars

\* one session alone that also edits the catalog and the snapshots: a save
\* of a product that cannot connect for ensure_stock_row leaves the product
\* without a row in stock
NextCatalog ==
    \/ StartUpsert(1) \/ UpsertInsert(1) \/ UpsertEnsure(1)
    \/ StartGet(1) \/ StartSet(1)
    \/ StartApplyAny(1) \/ ApplyProduct(1) \/ ApplyInsert(1)
    \/ GetExists(1) \/ GetEnsure(1) \/ GetSelect(1)
    \/ SetExists(1) \/ SetUpsert(1)
    \/ Fail(1)

SpecCatalog == InitSteps /\ [][NextCatalog]_vars

\* undo_last_entry is called in a session whose calls are kept on record
StartUndoNoted(s) ==
    /\ CanCall(s)
    /\ sess' = [sess EXCEPT ![s] = [Idle EXCEPT !.op = "undo_last_entry", !.pc = "u_last",
                                                 !.at = {DB}, !.n = sess[s].n + 1]]
    /\ SameDB
    /\ UNCHANGED <<ret, before, calls>>

\* two sessions that call apply_opening and undo_last_entry, every
\* statement connecting
NextUndoRace ==
    \/ \E s \in Sessions : StartApplyNoted(s)
    \/ \E s \in Sessions : ApplyProduct(s)
    \/ \E s \in Sessions : ApplyInsert(s)
    \/ \E s \in Sessions : StartUndoNoted(s)
    \/ \E s \in Sessions : UndoLast(s)
    \/ \E s \in Sessions : UndoProduct(s)
    \/ \E s \in Sessions : UndoDelete(s)
    \/ \E s \in Sessions : GetExists(s)
    \/ \E s \in Sessions : GetEnsure(s)
    \/ \E s \in Sessions : GetSelect(s)
    \/ \E s \in Sessions : SetExists(s)
    \/ \E s \in Sessions : SetUpsert(s)

SpecUndoRace == InitSteps /\ [][NextUndoRace]_vars

\* two sessions that call apply_opening and nothing else, every statement
\* connecting
NextRace ==
    \/ \E s \in Sessions : StartApplyNoted(s)
    \/ \E s \in Sessions : ApplyProduct(s)
    \/ \E s \in Sessions : GetExists(s)
    \/ \E s \in Sessions : GetEnsure(s)
    \/ \E s \in Sessions : GetSelect(s)
    \/ \E s \in Sessions : ApplyInsert(s)
    \/ \E s \in Sessions : SetExists(s)
    \/ \E s \in Sessions : SetUpsert(s)

SpecRace == InitSteps /\ [][NextRace]_vars

-----------------------------------------------------------------------------
(* The handlers as functions of the products row they read.  The check of  *)
(* products.split_mode keeps every row the program writes within AUTO,     *)
(* MANUAL and NONE; what apply_opening and undo_last_entry do with a row   *)
(* that holds another value is decided by their if / elif / else alone.    *)
(* Here they are applied to the database with the row of one product       *)
(* replaced by a row of any policy, or taken away; ret records the call,    *)
(* the policy (last argument) and the outcome, and the database itself     *)
(* stays as it is.                                                         *)

\* the values split_mode is drawn from: the three policies and one other
PolicyIn == SplitModes \cup {"BOTH"}

\* the database with the products row of barcode holding split_mode pol
WithPolicy(d, barcode, pol, a) ==
    [d EXCEPT !.products[barcode].split_mode = pol,
              !.products[barcode].auto_singles_per_box = a[1],
              !.products[barcode].auto_sixpk_per_box = a[2]]

PolicyApply ==
    \E b \in DOMAIN products, pol \in PolicyIn, a \in AutoIn, n \in 1..MaxBoxes, mi \in ManualIn :
        LET r == apply_opening(WithPolicy(DB, b, pol, a), "2024-01-01", b, n, mi[1], mi[2], "")
        IN  /\ ret' = Call("apply_opening", <<"2024-01-01", b, n, mi[1], mi[2], "", pol>>, r)
            /\ UNCHANGED <<products, stock, open_log, next_id, before, calls, sess>>

\* the last row was written by an apply_opening of n boxes, 2 singles, 1 six-pack
PolicyUndo ==
    \E b \in DOMAIN products, pol \in PolicyIn, a \in AutoIn, n \in 1..MaxBoxes :
        LET d == apply_opening(DB, "2024-01-01", b, n, 2, 1, "").d
            r == undo_last_entry(WithPolicy(d, b, pol, a))
        IN  /\ ret' = Call("undo_last_entry", <<"", b, n, a[1], a[2], "", pol>>, r)
            /\ UNCHANGED <<products, stock, open_log, next_id, before, calls, sess>>

\* the database with the products row of barcode gone and the rows that
\* refer to it left behind
Without(d, barcode) ==
    [d EXCEPT !.products = [x \in (DOMAIN d.products) \ {barcode} |-> d.products[x]]]

\* the last row was written by an apply_opening for a product that has no
\* products row any more (last argument "absent")
DanglingUndo ==
    \E b \in DOMAIN products, n \in 1..MaxBoxes :
        LET d == apply_opening(DB, "2024-01-01", b, n, 2, 1, "").d
            r == undo_last_entry(Without(d, b))
        IN  /\ ret' = Call("undo_last_entry", <<"", b, n, 0, 0, "", "absent">>, r)
            /\ UNCHANGED <<products, stock, open_log, next_id, before, calls, sess>>

NextPolicy == PolicyApply \/ PolicyUndo \/ DanglingUndo

SpecPolicy == Init /\ [][NextPolicy]_vars

-----------------------------------------------------------------------------
(* Vocabulary of the properties.                                           *)

Max(S) == CHOOSE x \in S : \A y \in S : y <= x

\* the call that led to this state
LastIs(op) == ret.op = op
AppliedOk == ret.op = "apply_opening" /\ ret.ok
ArgBarcode == ret.args[2]
ArgBoxes == ret.args[3]
ArgSingles == ret.args[4]
ArgSixpk == ret.args[5]
\* the rows the last apply_opening added to the log
NewRows == open_log \ before.open_log

\* what a row of the log stands for under a product's policy
RowSingles(prod, row) ==
    CASE prod.split_mode = "AUTO" -> row.boxes_opened * prod.auto_singles_per_box
      [] prod.split_mode = "MANUAL" -> row.singles_made
      [] prod.split_mode = "NONE" -> 0

RowSixpk(prod, row) ==
    CASE prod.split_mode = "AUTO" -> row.boxes_opened * prod.auto_sixpk_per_box
      [] prod.split_mode = "MANUAL" -> row.sixpk_made
      [] prod.split_mode = "NONE" -> 0

RECURSIVE SumOver(_, _, _)
\* the sum of Val(prod, row) over the rows of the set
SumOver(rows, prod, which) ==
    IF rows = {} THEN 0
    ELSE LET r == CHOOSE x \in rows : TRUE
             v == CASE which = "boxes" -> r.boxes_opened
                    [] which = "singles" -> RowSingles(prod, r)
                    [] which = "sixpk" -> RowSixpk(prod, r)
         IN  v + SumOver(rows \ {r}, prod, which)

\* the snapshot that replaying the product's rows from (0, 0, 0) gives
Replay(b) ==
    LET rows == {r \in open_log : r.barcode = b}
    IN  StockRow(0 - SumOver(rows, products[b], "boxes"),
                 SumOver(rows, products[b], "singles"),
                 SumOver(rows, products[b], "sixpk"))

\* every product's snapshot is the replay of its rows in the log
Consistent ==
    \A b \in DOMAIN products : b \in DOMAIN stock /\ stock[b] = Replay(b)

\* session s runs a call of op that began on the database d0
CallOn(s, op, d0) ==
    /\ Running(s) /\ sess[s].op = op
    /\ sess[s].at = {d0}

\* the last call of session s was a call of op that began on the database
\* d0 and has ended
CalledOn(s, op, d0) ==
    /\ ~Running(s) /\ sess[s].op = op
    /\ sess[s].at = {d0}

\* this step is a statement of a call of the handler op
ActedIn(op) ==
    \E s \in Sessions : Running(s) /\ sess[s].op = op /\ sess'[s] # sess[s]

-----------------------------------------------------------------------------
(* C1: an undo_last_entry called right after a successful apply_opening    *)
(* finds the entry, puts every snapshot back to what it was before the     *)
(* apply and leaves the log exactly as it was before the apply.            *)
C1_UndoInvertsApply ==
    (LastIs("undo_last_entry") /\ before # NoDB) =>
        /\ ret.ok /\ ret.val[1] = TRUE
        /\ stock = before.stock
        /\ open_log = before.open_log
        /\ products = before.products

\* an older row of the same product is in the log and its effect in the
\* snapshot, a second apply on that product was made and undone
C1_Witness ==
    /\ LastIs("undo_last_entry") /\ before # NoDB
    /\ \E r \in before.open_log :
          /\ r.barcode = ret.val[2] /\ r.boxes_opened = 1 /\ r.singles_made = 2
          /\ stock[r.barcode] = StockRow(-1, 2, 1)

C3_ApplyAtomic ==
    [][(Consistent /\ ActedIn("apply_opening")) => Consistent']_vars

(* C4: undo_last_entry's delete from the log and its write of the snapshot *)
(* commit together or not at all: no statement an undo_last_entry commits  *)
(* leads from a state where every snapshot is the replay of its log to a   *)
(* state where the row is deleted and the snapshot still has its effect,   *)
(* or the snapshot is reversed and the row is still there.                 *)
C4_UndoAtomic ==
    [][(Consistent /\ ActedIn("undo_last_entry")) => Consistent']_vars

(* C5: for an AUTO product with multipliers (s, k), apply_opening(n)       *)
(* returns derived singles n*s and derived six-packs n*k, adds them to the *)
(* snapshot and stores a row with singles_made = sixpk_made = 0.           *)
C5_AutoSplit ==
    (AppliedOk /\ before.products[ArgBarcode].split_mode = "AUTO") =>
        LET b == ArgBarcode
            p == before.products[b]
        IN  /\ ret.val[5] = ArgBoxes * p.auto_singles_per_box
            /\ ret.val[6] = ArgBoxes * p.auto_sixpk_per_box
            /\ stock[b].singles = before.stock[b].singles + ArgBoxes * p.auto_singles_per_box
            /\ stock[b].sixpk = before.stock[b].sixpk + ArgBoxes * p.auto_sixpk_per_box
            /\ Cardinality(NewRows) = 1
            /\ \A r \in NewRows : r.singles_made = 0 /\ r.sixpk_made = 0

\* an AUTO product with both multipliers non-zero, one box, manual counts passed
C5_Witness ==
    /\ AppliedOk
    /\ before.products[ArgBarcode].split_mode = "AUTO"
    /\ before.products[ArgBarcode].auto_sixpk_per_box = 2
    /\ ArgBoxes = 1 /\ ArgSingles = 2 /\ ArgSixpk = 1
    /\ stock[ArgBarcode].sixpk = 2

(* C6: for a MANUAL product the stored row holds exactly the manual counts *)
(* passed in, the derived amounts added to the snapshot are those counts,  *)
(* and the row read back (as undo reads it) gives the counts written.      *)
C6_ManualSplit ==
    (AppliedOk /\ before.products[ArgBarcode].split_mode = "MANUAL") =>
        LET b == ArgBarcode
            back == last_row_of(DB)
        IN  /\ Cardinality(NewRows) = 1
            /\ \A r \in NewRows : r.singles_made = ArgSingles /\ r.sixpk_made = ArgSixpk
            /\ ret.val[5] = ArgSingles /\ ret.val[6] = ArgSixpk
            /\ stock[b].singles = before.stock[b].singles + ArgSingles
            /\ stock[b].sixpk = before.stock[b].sixpk + ArgSixpk
            /\ back \in NewRows
            /\ undo_split(products[b], back.boxes_opened, back.singles_made, back.sixpk_made)
                 = [derived_singles |-> ArgSingles, derived_sixpk |-> ArgSixpk]

\* stock (5, 10, 2), one box, 2 singles and 1 six-pack entered
C6_Witness ==
    /\ AppliedOk
    /\ before.products[ArgBarcode].split_mode = "MANUAL"
    /\ before.stock[ArgBarcode] = StockRow(5, 10, 2)
    /\ ArgBoxes = 1 /\ ArgSingles = 2 /\ ArgSixpk = 1
    /\ stock[ArgBarcode] = StockRow(4, 12, 3)

(* C7: for a NONE product apply_opening changes only closed_boxes, by      *)
(* minus boxes_opened; singles and sixpk stay and the stored row has       *)
(* singles_made = sixpk_made = 0 whatever manual counts were passed.       *)
C7_NoneSplit ==
    (AppliedOk /\ before.products[ArgBarcode].split_mode = "NONE") =>
        LET b == ArgBarcode
        IN  /\ stock[b].closed_boxes = before.stock[b].closed_boxes - ArgBoxes
            /\ stock[b].singles = before.stock[b].singles
            /\ stock[b].sixpk = before.stock[b].sixpk
            /\ Cardinality(NewRows) = 1
            /\ \A r \in NewRows : r.singles_made = 0 /\ r.sixpk_made = 0

\* stock (5, 10, 2), one box, manual counts passed and ignored
C7_Witness ==
    /\ AppliedOk
    /\ before.products[ArgBarcode].split_mode = "NONE"
    /\ ArgBoxes = 1 /\ ArgSingles = 2
    /\ before.stock[ArgBarcode] = StockRow(5, 10, 2)
    /\ stock[ArgBarcode] = StockRow(4, 10, 2)

(* C8: a successful apply_opening(n) on a snapshot (c, s, k) persists      *)
(* (c - n, s + derived singles, k + derived six-packs), and the three new  *)
(* values it returns are the snapshot persisted when it returns.           *)
C8_NewSnapshot ==
    AppliedOk =>
        LET b == ArgBarcode
            s0 == before.stock[b]
        IN  /\ stock[b] = StockRow(s0.closed_boxes - ArgBoxes,
                                   s0.singles + ret.val[5],
                                   s0.sixpk + ret.val[6])
            /\ <<ret.val[2], ret.val[3], ret.val[4]>>
                 = <<stock[b].closed_boxes, stock[b].singles, stock[b].sixpk>>

\* every field of the snapshot moved
C8_Witness ==
    /\ AppliedOk
    /\ before.stock[ArgBarcode] = StockRow(5, 10, 2)
    /\ ArgBoxes = 1 /\ ret.val[5] = 1 /\ ret.val[6] = 2
    /\ stock[ArgBarcode] = StockRow(4, 11, 4)

(* C9: undo_last_entry on a non-empty log takes the row with the highest   *)
(* id over all products, deletes that row and no other, and changes only   *)
(* the snapshot of that row's product: closed_boxes plus boxes_opened,     *)
(* singles and sixpk minus the amounts the row stands for.                 *)
C9_UndoGlobalLifo ==
    [][(ret'.op = "undo_last_entry" /\ open_log # {}) =>
        LET top == Max({r.id : r \in open_log})
            row == CHOOSE r \in open_log : r.id = top
            b == row.barcode
            p == products[b]
        IN  /\ ret'.ok /\ ret'.val[1] = TRUE /\ ret'.val[2] = b
            /\ open_log' = open_log \ {row}
            /\ products' = products
            /\ DOMAIN stock' = DOMAIN stock
            /\ \A x \in DOMAIN stock : x # b => stock'[x] = stock[x]
            /\ stock'[b] = StockRow(stock[b].closed_boxes + row.boxes_opened,
                                    stock[b].singles - RowSingles(p, row),
                                    stock[b].sixpk - RowSixpk(p, row))]_vars

\* the undone row was of one product, an older row of another product remains
C9_Witness ==
    /\ LastIs("undo_last_entry") /\ ret.val[1] = TRUE
    /\ \E r \in open_log : r.barcode # ret.val[2] /\ r.boxes_opened = 1
    /\ \E b \in DOMAIN stock : b # ret.val[2] /\ stock[b].closed_boxes = -1

(* C10: undo_last_entry on an empty log returns found = false and leaves   *)
(* the catalog, every snapshot and the log as they were.                   *)
C10_UndoEmptyLog ==
    [][(ret'.op = "undo_last_entry" /\ open_log = {}) =>
        /\ ret'.ok /\ ret'.val = <<FALSE>>
        /\ products' = products
        /\ stock' = stock
        /\ open_log' = open_log
        /\ next_id' = next_id]_vars

\* an undo on an empty log whose snapshots are not all zero
C10_Witness ==
    /\ LastIs("undo_last_entry") /\ ret.val = <<FALSE>>
    /\ open_log = {}
    /\ \E b \in DOMAIN stock : stock[b] = StockRow(5, 10, 2)

(* C11: apply_opening for a barcode that has no row in products raises     *)
(* "Product not found." and leaves the catalog, every snapshot, the log    *)
(* and the sequence of ids as they were: no row is added to the log and no *)
(* snapshot row is created or changed.                                     *)
C11_ApplyUnknownProduct ==
    [][(ret'.op = "apply_opening" /\ ret'.args[2] \notin DOMAIN products) =>
        /\ ~ret'.ok /\ ret'.err = "Product not found."
        /\ products' = products
        /\ stock' = stock
        /\ open_log' = open_log
        /\ next_id' = next_id]_vars

\* the call failed on the absent product while the other product has a row
\* in the log and its snapshot moved
C11_Witness ==
    /\ LastIs("apply_opening") /\ ~ret.ok /\ ret.err = "Product not found."
    /\ ArgBarcode \notin DOMAIN products /\ ArgBoxes = 1
    /\ \E r \in open_log : r.barcode # ArgBarcode
    /\ \E b \in DOMAIN stock : stock[b].closed_boxes = -1

(* C12: apply_opening with a negative boxes_opened for a product of the    *)
(* catalog fails before it changes anything: no statement of the call      *)
(* changes the catalog, a snapshot or the log or creates a snapshot row,   *)
(* and the call does not return.                                           *)
C12_NegativeBoxesNoEffect ==
    [][\A s \in Sessions : \A d0 \in sess[s].at :
         (CallOn(s, "apply_opening", d0) /\ sess[s].args[3] < 0
            /\ sess[s].args[2] \in DOMAIN d0.products) =>
              /\ sess'[s].pc # "returned"
              /\ DB' = d0]_vars

(* C13: for a MANUAL product the manual counts are non-negative in effect: *)
(* an apply_opening that returns has derived singles and six-packs >= 0,   *)
(* takes nothing off the snapshot's singles and sixpk and stores           *)
(* singles_made >= 0 and sixpk_made >= 0; one that fails changes nothing.  *)
C13_ManualNonNegative ==
    [][(/\ ret'.op = "apply_opening"
        /\ ret'.args[2] \in DOMAIN products
        /\ products[ret'.args[2]].split_mode = "MANUAL") =>
          LET b == ret'.args[2]
          IN  IF ret'.ok
              THEN /\ ret'.val[5] >= 0 /\ ret'.val[6] >= 0
                   /\ stock'[b].singles >= stock[b].singles
                   /\ stock'[b].sixpk >= stock[b].sixpk
                   /\ \A r \in open_log' \ open_log :
                         r.singles_made >= 0 /\ r.sixpk_made >= 0
              ELSE DB' = DB]_vars

C15_SetStockFrame ==
    \A s \in Sessions : \A d0 \in sess[s].at :
        CalledOn(s, "set_stock", d0) =>
            LET b == sess[s].args[2]
                new == TheRow(sess[s].new)
            IN  IF b \in DOMAIN d0.products
                THEN \/ /\ sess[s].pc = "returned"
                        /\ DB = [d0 EXCEPT !.stock = Put(d0.stock, b, new)]
                     \/ /\ sess[s].pc = "raised" /\ sess[s].err = "OperationalError"
                        /\ DB = d0
                ELSE sess[s].pc = "raised" /\ DB = d0

\* the product had no row in stock and another product had one
C15_Witness ==
    \E s \in Sessions : \E d0 \in sess[s].at :
        /\ CalledOn(s, "set_stock", d0) /\ sess[s].pc = "returned"
        /\ sess[s].args[2] \in DOMAIN d0.products
        /\ sess[s].args[2] \notin DOMAIN d0.stock
        /\ \E x \in DOMAIN stock : x # sess[s].args[2]
        /\ stock[sess[s].args[2]] = StockRow(5, 10, 2)

(* C16: get_stock for a product of the catalog that has no row in stock    *)
(* returns (0, 0, 0) without error and leaves a zero row for it, changing  *)
(* nothing else; for a product that has a row it returns that row and      *)
(* changes nothing.  (Only a statement that cannot connect makes the call  *)
(* raise.)                                                                 *)
C16_LazySnapshot ==
    \A s \in Sessions : \A d0 \in sess[s].at :
        (CalledOn(s, "get_stock", d0) /\ sess[s].args[2] \in DOMAIN d0.products) =>
            LET b == sess[s].args[2]
            IN  \/ /\ sess[s].pc = "returned"
                   /\ IF b \in DOMAIN d0.stock
                      THEN /\ sess[s].val = <<d0.stock[b].closed_boxes, d0.stock[b].singles,
                                              d0.stock[b].sixpk>>
                           /\ DB = d0
                      ELSE /\ sess[s].val = <<0, 0, 0>>
                           /\ DB = [d0 EXCEPT !.stock = Put(d0.stock, b, StockRow(0, 0, 0))]
                \/ sess[s].pc = "raised" /\ sess[s].err = "OperationalError"

\* the product had no row in stock: (0, 0, 0) was returned and the row is there
C16_Witness ==
    \E s \in Sessions : \E d0 \in sess[s].at :
        /\ CalledOn(s, "get_stock", d0) /\ sess[s].pc = "returned"
        /\ sess[s].args[2] \in DOMAIN d0.products
        /\ sess[s].args[2] \notin DOMAIN d0.stock
        /\ sess[s].val = <<0, 0, 0>>
        /\ stock[sess[s].args[2]] = StockRow(0, 0, 0)

(* C17: two apply_opening calls on one product, run by two sessions, can   *)
(* both read the same snapshot; whenever they did and both have returned,  *)
(* the log holds the rows of both and the snapshot is the one read plus    *)
(* the change of one call alone, the other call's change being lost.       *)
C17_LostUpdate ==
    \A s \in Sessions, t \in Sessions : \A ds \in sess[s].at, dt \in sess[t].at :
        (/\ s # t
         /\ CalledOn(s, "apply_opening", ds) /\ sess[s].pc = "returned"
         /\ CalledOn(t, "apply_opening", dt) /\ sess[t].pc = "returned"
         /\ sess[s].args[2] = sess[t].args[2]
         /\ sess[s].stk = sess[t].stk) =>
            LET b == sess[s].args[2]
                read == TheRow(sess[s].stk)
            IN  /\ stock[b] \in sess[s].new \cup sess[t].new
                /\ stock[b].closed_boxes \in {read.closed_boxes - sess[s].args[3],
                                               read.closed_boxes - sess[t].args[3]}
                /\ \E r1 \in open_log, r2 \in open_log :
                      /\ r1.id # r2.id
                      /\ r1.barcode = b /\ r1.boxes_opened = sess[s].args[3]
                      /\ r2.barcode = b /\ r2.boxes_opened = sess[t].args[3]

\* both calls read (0, 0, 0) of an AUTO product; the log holds the rows of
\* 1 box and of 2 boxes, the snapshot that of the 1 box alone
C17_Witness ==
    /\ \A s \in Sessions : sess[s].op = "apply_opening" /\ sess[s].pc = "returned"
    /\ sess[1].stk = {StockRow(0, 0, 0)} /\ sess[2].stk = {StockRow(0, 0, 0)}
    /\ sess[1].args[2] = P1 /\ sess[2].args[2] = P1
    /\ products[P1].split_mode = "AUTO"
    /\ {r.boxes_opened : r \in open_log} = {1, 2}
    /\ stock[P1] = StockRow(-1, 1, 2)

C19_SingleLevelUndo ==
    [][(/\ ret.op = "undo_last_entry" /\ ret.val[1] = TRUE
        /\ ret'.op = "undo_last_entry") =>
          /\ open_log' = open_log
          /\ stock' = stock]_vars

(* C19 as amended: every undo_last_entry takes the most recent row that is *)
(* left in the log; one that follows a successful undo_last_entry with no  *)
(* apply_opening in between deletes exactly the row of highest id that is  *)
(* left, an entry older than the one just undone, and reverses that row's  *)
(* amounts in its product's snapshot and no other.                         *)
C19_UndoWalksBack ==
    [][(/\ ret.op = "undo_last_entry" /\ ret.val[1] = TRUE
        /\ ret'.op = "undo_last_entry"
        /\ open_log # {}) =>
          LET row == CHOOSE r \in open_log : \A q \in open_log : q.id <= r.id
              b == row.barcode
          IN  /\ ret'.ok /\ ret'.val[1] = TRUE /\ ret'.val[2] = b
              /\ before # NoDB => row.id < before.next_id
              /\ open_log' = open_log \ {row}
              /\ stock' = [stock EXCEPT ![b] =
                    StockRow(stock[b].closed_boxes + row.boxes_opened,
                             stock[b].singles - RowSingles(products[b], row),
                             stock[b].sixpk - RowSixpk(products[b], row))]]_vars

\* two entries were made and the last two calls undid both, the later first
C19_Witness ==
    /\ LastIs("undo_last_entry") /\ ret.val[1] = TRUE
    /\ before = NoDB
    /\ next_id = 3 /\ open_log = {}
    /\ \A b \in DOMAIN stock : stock[b] = StockRow(0, 0, 0)

(* C20: undo_last_entry derives the amounts from the product's row as it   *)
(* is now: when an AUTO product's multipliers are changed from (s, k) to   *)
(* (s', k') by upsert_product between apply_opening(n) and the undo, the   *)
(* undo takes off n*s' and n*k', so the snapshot after it is the one       *)
(* before the apply plus n*(s - s') singles and n*(k - k') six-packs, with *)
(* closed_boxes back, and the row of the entry is deleted.                 *)
C20_UndoDrift ==
    [][(/\ ret.op = "upsert_product" /\ ret'.op = "undo_last_entry"
        /\ before # NoDB /\ before' = before
        /\ before.products[ret.args[1]].split_mode = "AUTO"
        /\ products[ret.args[1]].split_mode = "AUTO") =>
          LET b == ret.args[1]
              row == last_row_of(DB)
              n == row.boxes_opened
              was == before.products[b]
              now == products[b]
              s0 == before.stock[b]
          IN  /\ row.barcode = b /\ row \notin before.open_log
              /\ ret'.val[1] = TRUE /\ ret'.val[2] = b
              /\ open_log' = before.open_log
              /\ stock' = [before.stock EXCEPT ![b] =
                    StockRow(s0.closed_boxes,
                             s0.singles + n * (was.auto_singles_per_box - now.auto_singles_per_box),
                             s0.sixpk + n * (was.auto_sixpk_per_box - now.auto_sixpk_per_box))]]_vars

\* one box entered at (2, 0), the product saved with (1, 2), the entry undone:
\* the snapshot that was (0, 0, 0) is (0, 1, -2) and the log is as it was
C20_Witness ==
    /\ LastIs("undo_last_entry") /\ ret.val[1] = TRUE
    /\ before # NoDB
    /\ before.products[ret.val[2]].auto_singles_per_box = 2
    /\ before.products[ret.val[2]].auto_sixpk_per_box = 0
    /\ products[ret.val[2]].split_mode = "AUTO"
    /\ products[ret.val[2]].auto_singles_per_box = 1
    /\ products[ret.val[2]].auto_sixpk_per_box = 2
    /\ before.stock[ret.val[2]] = StockRow(0, 0, 0)
    /\ stock[ret.val[2]] = StockRow(0, 1, -2)
    /\ open_log = before.open_log

(* C21: the balances have no floor.  apply_opening with a valid            *)
(* boxes_opened greater than the product's closed_boxes returns and        *)
(* writes the negative closed_boxes; undo_last_entry of a row whose        *)
(* amounts exceed the snapshot's singles or sixpk returns found and writes *)
(* the negative difference.  Neither rejects, neither clamps.              *)
C21_Unfloored ==
    [][/\ (/\ ret'.op = "apply_opening"
            /\ ret'.args[2] \in DOMAIN products
            /\ ret'.args[3] >= 0
            /\ ret'.args[3] > stock[ret'.args[2]].closed_boxes) =>
              LET b == ret'.args[2]
              IN  /\ ret'.ok
                  /\ stock'[b].closed_boxes = stock[b].closed_boxes - ret'.args[3]
                  /\ stock'[b].closed_boxes < 0
       /\ (ret'.op = "undo_last_entry" /\ open_log # {}) =>
              LET row == last_row_of(DB)
                  b == row.barcode
                  ds == RowSingles(products[b], row)
                  dk == RowSixpk(products[b], row)
              IN  /\ ret'.ok /\ ret'.val[1] = TRUE
                  /\ ds > stock[b].singles =>
                        /\ stock'[b].singles = stock[b].singles - ds
                        /\ stock'[b].singles < 0
                  /\ dk > stock[b].sixpk =>
                        /\ stock'[b].sixpk = stock[b].sixpk - dk
                        /\ stock'[b].sixpk < 0]_vars

\* an undo took more six-packs off than the snapshot had: the row stands
\* for 2 six-packs since the product was saved again, the snapshot had 0
C21_Witness ==
    /\ LastIs("undo_last_entry") /\ ret.val[1] = TRUE
    /\ stock[ret.val[2]].sixpk = -2
    /\ stock[ret.val[2]].closed_boxes = 0

(* C22: in every reachable state every row of open_log has                 *)
(* boxes_opened >= 0.                                                      *)
C22_BoxesNonNegative ==
    \A r \in open_log : r.boxes_opened >= 0

\* an entry of -1 boxes was asked for after an entry had been made: the
\* call failed and the log holds the earlier row only
C22_Witness ==
    /\ LastIs("apply_opening") /\ ~ret.ok
    /\ ArgBoxes < 0
    /\ ArgBarcode \in DOMAIN products
    /\ open_log # {}

C24_IdsFollowCreation ==
    /\ [](\A r \in open_log : r.id < next_id)
    /\ [][/\ next_id' >= next_id
           /\ \A r \in open_log' \ open_log :
                 /\ r.id = next_id /\ next_id' > r.id
                 /\ \A q \in open_log' : q.id <= r.id
                 /\ \A q \in open_log' \ {r} : q \in open_log /\ q.id < r.id]_vars

\* rows 1 and 2 were made and deleted by undo; the entry made after them
\* got id 3 and is the only row of the log
C24_Witness ==
    /\ AppliedOk
    /\ {r.id : r \in open_log} = {3}
    /\ next_id = 4

(* C25: a successful apply_opening adds exactly one row to the log, the    *)
(* row holding the log_date, barcode, boxes_opened and note passed in, and *)
(* writes the snapshot of that barcode only: the rows the log had, the     *)
(* snapshots of the other products and the catalog are as before the call. *)
C25_ApplyFrame ==
    AppliedOk =>
        /\ before.open_log \subseteq open_log
        /\ Cardinality(NewRows) = 1
        /\ \A r \in NewRows :
              /\ r.log_date = ret.args[1] /\ r.barcode = ArgBarcode
              /\ r.boxes_opened = ArgBoxes /\ r.note = ret.args[6]
        /\ products = before.products
        /\ DOMAIN stock \ {ArgBarcode} = DOMAIN before.stock \ {ArgBarcode}
        /\ \A b \in DOMAIN stock \ {ArgBarcode} : stock[b] = before.stock[b]

\* the entry was made on a log that had a row, with another product in the
\* catalog whose snapshot was not zero
C25_Witness ==
    /\ AppliedOk /\ ArgBoxes = 1
    /\ before.open_log # {}
    /\ stock[ArgBarcode] # before.stock[ArgBarcode]
    /\ \E b \in DOMAIN stock \ {ArgBarcode} : stock[b] # StockRow(0, 0, 0)

(* C26: nothing in apply_opening holds the manual counts to the pack size. *)
(* An entry on a MANUAL product whose singles + 6 * six-packs exceed       *)
(* pack_size * boxes_opened is accepted: the row stores the counts and the *)
(* snapshot takes them.  With "Validate manual split" ticked the form      *)
(* shows the excess, and the entry is saved all the same.                  *)
C26_PackSizeNotEnforced ==
    (/\ ret.op = "apply_opening"
     /\ products[ArgBarcode].split_mode = "MANUAL"
     /\ ArgSingles + ArgSixpk * 6 > products[ArgBarcode].pack_size * ArgBoxes) =>
        /\ ret.ok
        /\ Cardinality(NewRows) = 1
        /\ \A r \in NewRows : /\ r.boxes_opened = ArgBoxes
                                /\ r.singles_made = ArgSingles
                                /\ r.sixpk_made = ArgSixpk
        /\ stock[ArgBarcode].singles = before.stock[ArgBarcode].singles + ArgSingles
        /\ stock[ArgBarcode].sixpk = before.stock[ArgBarcode].sixpk + ArgSixpk
        /\ ret.args[7] => ret.args[8] = "error: units above max"

\* one box of 6 opened, 2 singles and 1 six-pack (8 units) entered, the
\* validation ticked: the message was shown and the entry saved
C26_Witness ==
    /\ AppliedOk
    /\ products[ArgBarcode].split_mode = "MANUAL"
    /\ products[ArgBarcode].pack_size = 6
    /\ ArgBoxes = 1 /\ ArgSingles = 2 /\ ArgSixpk = 1
    /\ ret.args[7] /\ ret.args[8] = "error: units above max"
    /\ \E r \in open_log : r.singles_made = 2 /\ r.sixpk_made = 1

C28_UndoUnwinds ==
    [][ret'.op = "undo_last_entry" =>
          /\ ret'.ok /\ ret'.val[1] = TRUE
          /\ products' = Head(before).products
          /\ stock' = Head(before).stock
          /\ open_log' = Head(before).open_log
          /\ before' = <<>> => next_id' = next_id]_vars

\* two entries on two products whose snapshots had been corrected, then two
\* undos: the log is empty again and both snapshots are the corrected ones
C28_Witness ==
    /\ LastIs("undo_last_entry") /\ ret.val[1] = TRUE
    /\ before = <<>>
    /\ next_id = 3 /\ open_log = {}
    /\ \A b \in Barcodes : b \in DOMAIN stock /\ stock[b] = StockRow(5, 10, 2)

(* C29: two undo_last_entry calls that run at once in two sessions never   *)
(* reverse the same row twice.  When both began on the same database and   *)
(* both read the same last row, then once both have returned exactly that  *)
(* row is gone from the log and the product's snapshot is the one the      *)
(* calls began on with the row's amounts taken off once.                   *)
C29_UndoOnce ==
    \A d0 \in sess[1].at :
        (/\ CalledOn(1, "undo_last_entry", d0) /\ CalledOn(2, "undo_last_entry", d0)
         /\ sess[1].pc = "returned" /\ sess[2].pc = "returned"
         /\ sess[1].last_row # {} /\ sess[1].last_row = sess[2].last_row) =>
            LET row == TheRow(sess[1].last_row)
                b == row.barcode
                sp == undo_split(d0.products[b], row.boxes_opened,
                                 row.singles_made, row.sixpk_made)
            IN  /\ open_log = d0.open_log \ {row}
                /\ stock[b] = undo_new_stock(d0.stock[b], row.boxes_opened, sp)

(* C30: an undo_last_entry that begins while an apply_opening on the same  *)
(* product has inserted its row and not yet written the snapshot, and that *)
(* reads that row, leaves log and snapshot consistent: once both calls     *)
(* have returned the row is gone and the snapshot does not hold the        *)
(* amounts of the row.                                                     *)
C30_UndoDuringApply ==
    \A s \in Sessions, t \in Sessions : \A d0 \in sess[s].at, d1 \in sess[t].at :
        (/\ CalledOn(s, "apply_opening", d0) /\ sess[s].pc = "returned"
         /\ CalledOn(t, "undo_last_entry", d1) /\ sess[t].pc = "returned"
         /\ sess[t].last_row # {}
         /\ TheRow(sess[t].last_row).barcode = sess[s].args[2]
         /\ d1.open_log = d0.open_log \cup sess[t].last_row
         /\ sess[t].last_row \cap d0.open_log = {}
         /\ d1.stock = d0.stock) =>
            LET b == sess[s].args[2]
                a == sess[s].args
                sp == apply_split(d0.products[b], a[3], a[4], a[5])
            IN  /\ open_log = d0.open_log
                /\ stock[b] # apply_new_stock(d0.stock[b], a[3], sp)

=============================================================================
